---- MODULE Spec2Model ----
(***************************************************************************)
(* Model of app.py, the Streamlit slideshow over a local folder or a       *)
(* Google Drive folder.  One script run (one Streamlit "turn") is one      *)
(* action: the run reads the widgets, executes the sidebar handlers and    *)
(* then the main area, and ends either at the bottom of the script, at     *)
(* the time.sleep of the auto-advance block, or at an st.rerun().          *)
(*                                                                         *)
(* Strings are tuples of one-character strings so that the regular         *)
(* expressions, os.path.splitext, str.lower and the string sort keys are   *)
(* computed character by character.                                        *)
(***************************************************************************)
EXTENDS Integers, Sequences, FiniteSets, TLC

VARIABLES
    \* st.session_state
    current_idx, is_playing, files, loop_mode, loaded,
    drive_service, credentials_uploaded, token_pickle,
    \* widget values kept by Streamlit between runs
    source_type, auth_code, gdrive_url,
    show_images, show_videos, selected_extensions,
    \* environment: the temp directory, and the clock against the token expiry
    temp_files, token_expired,
    \* what the last run did: messages shown, the file read at line 559,
    \* a pending st.rerun(), the folder id the Drive handler extracted
    messages, view, rerun, folder_id,
    \* creds.refresh calls made so far with the blob now cached
    refresh_attempts, refresh_failed,
    \* the list endpoint (responses by page), what load_gdrive_files returned,
    \* how many pages it requested; whether the function has been applied
    endpoint, listed, requests, called,
    \* how the last run's call of initialize_drive_service ended
    init_outcome,
    \* the Next and Prev presses made so far, each with the index before and after
    trail

vars == << current_idx, is_playing, files, loop_mode, loaded,
           drive_service, credentials_uploaded, token_pickle,
           source_type, auth_code, gdrive_url,
           show_images, show_videos, selected_extensions,
           temp_files, token_expired,
           messages, view, rerun, folder_id,
           refresh_attempts, refresh_failed,
           endpoint, listed, requests, called, init_outcome, trail >>

-----------------------------------------------------------------------------
(* Characters and strings *)

\* The characters used, in ASCII order (the order Python compares str by).
Alphabet ==
    << "-", ".", "/", "0", "1", "2", "3", "4", "5", "6", "7", "8", "9",
       ":", "=", "?",
       "A", "B", "C", "D", "E", "F", "G", "H", "I", "J", "K", "L", "M",
       "N", "O", "P", "Q", "R", "S", "T", "U", "V", "W", "X", "Y", "Z",
       "_",
       "a", "b", "c", "d", "e", "f", "g", "h", "i", "j", "k", "l", "m",
       "n", "o", "p", "q", "r", "s", "t", "u", "v", "w", "x", "y", "z" >>

\* ord(c), up to the offset of the first character
CharCode ==
    [c \in { Alphabet[i] : i \in 1..Len(Alphabet) } |->
        CHOOSE i \in 1..Len(Alphabet) : Alphabet[i] = c]

Ord(c) == CharCode[c]

UpperFirst == Ord("A")
UpperLast == Ord("Z")
LowerFirst == Ord("a")
LowerLast == Ord("z")
DigitFirst == Ord("0")
DigitLast == Ord("9")

IsUpper(c) == Ord(c) >= UpperFirst /\ Ord(c) <= UpperLast
IsLowerLetter(c) == Ord(c) >= LowerFirst /\ Ord(c) <= LowerLast
IsDigit(c) == Ord(c) >= DigitFirst /\ Ord(c) <= DigitLast

\* str.lower(), one character
LowerChar(c) == IF IsUpper(c) THEN Alphabet[Ord(c) - UpperFirst + LowerFirst] ELSE c

\* str.lower()
Lower(s) == [i \in 1..Len(s) |-> LowerChar(s[i])]

\* Python's str < str: lexicographic by code point, a proper prefix first
RECURSIVE StrLess(_, _)
StrLess(a, b) ==
    IF b = << >> THEN FALSE
    ELSE IF a = << >> THEN TRUE
    ELSE IF Ord(a[1]) < Ord(b[1]) THEN TRUE
    ELSE IF Ord(a[1]) > Ord(b[1]) THEN FALSE
    ELSE StrLess(Tail(a), Tail(b))

\* pat in s
Contains(s, pat) ==
    \E i \in 1..Len(s) :
        /\ i + Len(pat) - 1 <= Len(s)
        /\ SubSeq(s, i, i + Len(pat) - 1) = pat

\* s from position i to the end
From(s, i) == SubSeq(s, i, Len(s))

-----------------------------------------------------------------------------
(* extract_folder_id *)

\* the character class [a-zA-Z0-9_-]
IsIdChar(c) == IsUpper(c) \/ IsLowerLetter(c) \/ IsDigit(c) \/ c = "_" \/ c = "-"

\* the greedy group ([a-zA-Z0-9_-]+) starting at position i
RECURSIVE IdRun(_, _)
IdRun(s, i) ==
    IF i <= Len(s) /\ IsIdChar(s[i]) THEN << s[i] >> \o IdRun(s, i + 1) ELSE << >>

\* Python's None for a string result; a match group is never empty, and the
\* handlers test the result by truthiness
None == << >>

\* re.search(prefix + r'([a-zA-Z0-9_-]+)', s): group 1 of the leftmost match, or None
re_search(prefix, s) ==
    LET n == Len(prefix)
        Hits == { i \in 1..Len(s) :
                    /\ i + n <= Len(s)
                    /\ SubSeq(s, i, i + n - 1) = prefix
                    /\ IsIdChar(s[i + n]) }
    IN  IF Hits = {} THEN None
        ELSE LET first == CHOOSE i \in Hits : \A j \in Hits : i <= j
             IN  IdRun(s, first + n)

ID_EQ == << "i", "d", "=" >>
FOLDERS == << "/", "f", "o", "l", "d", "e", "r", "s", "/" >>

\* the id= pattern is tried first and the /folders/ pattern second; there is no
\* third pattern
extract_folder_id(url) ==
    IF Contains(url, ID_EQ) /\ re_search(ID_EQ, url) # None
    THEN re_search(ID_EQ, url)
    ELSE IF Contains(url, FOLDERS) /\ re_search(FOLDERS, url) # None
    THEN re_search(FOLDERS, url)
    ELSE None

-----------------------------------------------------------------------------
(* File names and extensions *)

IMAGE_EXT ==
    << << ".", "j", "p", "g" >>, << ".", "j", "p", "e", "g" >>,
       << ".", "p", "n", "g" >>, << ".", "h", "e", "i", "c" >>,
       << ".", "g", "i", "f" >>, << ".", "b", "m", "p" >>,
       << ".", "w", "e", "b", "p" >> >>

VIDEO_EXT ==
    << << ".", "m", "p", "4" >>, << ".", "m", "o", "v" >>,
       << ".", "m", "4", "v" >>, << ".", "a", "v", "i" >>,
       << ".", "m", "k", "v" >>, << ".", "w", "e", "b", "m" >> >>

\* x in lst, for a Python list
InList(x, lst) == \E i \in 1..Len(lst) : lst[i] = x

\* str.rfind(c): the last position of c, 0 when absent (positions from 1)
RFind(s, c) ==
    IF \E i \in 1..Len(s) : s[i] = c
    THEN CHOOSE i \in 1..Len(s) : s[i] = c /\ \A j \in (i + 1)..Len(s) : s[j] # c
    ELSE 0

\* os.path.splitext(p)[1] (posixpath): the suffix from the last dot, when that dot
\* follows the last '/' and some character between them is not a dot
splitext_ext(p) ==
    LET sepIndex == RFind(p, "/")
        dotIndex == RFind(p, ".")
    IN  IF dotIndex > sepIndex
           /\ \E filenameIndex \in (sepIndex + 1)..(dotIndex - 1) : p[filenameIndex] # "."
        THEN From(p, dotIndex)
        ELSE << >>

\* pathlib's PurePath.suffix of a file name
path_suffix(name) ==
    LET i == RFind(name, ".")
    IN  IF 1 < i /\ i < Len(name) THEN From(name, i) ELSE << >>

-----------------------------------------------------------------------------
(* load_gdrive_files *)

\* One response of files().list().execute(): the page's items and nextPageToken
\* (0 when absent; the token a page hands out names the page after it), or an
\* exception raised by the request.
Page(items, next) == [items |-> items, next |-> next, error |-> FALSE]
PageError == [items |-> << >>, next |-> 0, error |-> TRUE]

\* a variant that compares the extension as spelled, without .lower()
gdrive_file_as_spelled(item) ==
    [name |-> item.name, ext |-> splitext_ext(item.name),
     size |-> item.size, modified |-> item.modified, source |-> "gdrive"]

\* the dict appended for one item (id, created and mime_type take no part in any
\* decision and are left out)
gdrive_file(item) ==
    [name |-> item.name, ext |-> Lower(splitext_ext(item.name)),
     size |-> item.size, modified |-> item.modified, source |-> "gdrive"]

\* the for loop over one page's items
RECURSIVE page_items(_, _)
page_items(items, acc) ==
    IF items = << >> THEN acc
    ELSE LET f == gdrive_file(Head(items))
         IN  page_items(Tail(items),
                        IF InList(f.ext, IMAGE_EXT \o VIDEO_EXT) THEN Append(acc, f) ELSE acc)

\* the while loop: request the page for page_token, keep its media items, stop
\* when the response carries no nextPageToken; an exception anywhere returns []
RECURSIVE list_loop(_, _, _, _)
list_loop(pages, page_token, acc, nreq) ==
    LET results == pages[IF page_token = 0 THEN 1 ELSE page_token]
    IN  IF results.error
        THEN [files |-> << >>, requests |-> nreq + 1, failed |-> TRUE]
        ELSE IF results.next = 0
        THEN [files |-> page_items(results.items, acc), requests |-> nreq + 1,
              failed |-> FALSE]
        ELSE list_loop(pages, results.next, page_items(results.items, acc), nreq + 1)

load_gdrive_files(pages) == list_loop(pages, 0, << >>, 0)

-----------------------------------------------------------------------------
(* Sorting *)

\* the sort keys of the handlers: the name (sorted(files, key=name), and the
\* order of Path objects within one directory), name.lower(), modified, size
KeyLess(key, a, b) ==
    CASE key = "name" -> StrLess(a.name, b.name)
      [] key = "name_lower" -> StrLess(Lower(a.name), Lower(b.name))
      [] key = "modified" -> a.modified < b.modified
      [] key = "size" -> a.size < b.size

\* e sorts after x: x goes in front of the first such element, so equal keys
\* keep their order (list.sort is stable, and stays stable under reverse=True)
SortsAfter(key, reverse, e, x) ==
    IF reverse THEN KeyLess(key, e, x) ELSE KeyLess(key, x, e)

InsertPos(key, reverse, lst, x) ==
    IF \E i \in 1..Len(lst) : SortsAfter(key, reverse, lst[i], x)
    THEN CHOOSE i \in 1..Len(lst) :
            /\ SortsAfter(key, reverse, lst[i], x)
            /\ \A j \in 1..(i - 1) : ~SortsAfter(key, reverse, lst[j], x)
    ELSE Len(lst) + 1

InsertAt(lst, x, at) == SubSeq(lst, 1, at - 1) \o << x >> \o SubSeq(lst, at, Len(lst))

Insert(key, reverse, lst, x) == InsertAt(lst, x, InsertPos(key, reverse, lst, x))

RECURSIVE SortInto(_, _, _, _)
SortInto(key, reverse, lst, acc) ==
    IF lst = << >> THEN acc
    ELSE SortInto(key, reverse, Tail(lst), Insert(key, reverse, acc, Head(lst)))

\* sorted(lst, key=..., reverse=...)
Sorted(key, reverse, lst) == SortInto(key, reverse, lst, << >>)

\* the permutations of a list (random.shuffle can leave any of them)
Shuffles(lst) ==
    { [i \in 1..Len(lst) |-> lst[p[i]]] :
        p \in { q \in [1..Len(lst) -> 1..Len(lst)] :
                  \A i, j \in 1..Len(lst) : i # j => q[i] # q[j] } }

\* a set of directory entries as a list in some order (Path.iterdir)
RECURSIVE AsList(_)
AsList(S) ==
    IF S = {} THEN << >>
    ELSE LET x == CHOOSE y \in S : TRUE IN << x >> \o AsList(S \ {x})

-----------------------------------------------------------------------------
(* The session: st.session_state, the widget values and the environment *)

\* no file has been read at line 559 in this run
NoView == [idx |-> -1, len |-> 0]

Cur ==
    [current_idx |-> current_idx, is_playing |-> is_playing, files |-> files,
     loop_mode |-> loop_mode, loaded |-> loaded, drive_service |-> drive_service,
     credentials_uploaded |-> credentials_uploaded, token_pickle |-> token_pickle,
     source_type |-> source_type, auth_code |-> auth_code, gdrive_url |-> gdrive_url,
     show_images |-> show_images, show_videos |-> show_videos,
     selected_extensions |-> selected_extensions,
     temp_files |-> temp_files, token_expired |-> token_expired,
     messages |-> messages, view |-> view, rerun |-> rerun, folder_id |-> folder_id,
     refresh_attempts |-> refresh_attempts, refresh_failed |-> refresh_failed,
     init_outcome |-> init_outcome]

\* the variables take the values of the record a run ends with
Becomes(s) ==
    /\ current_idx' = s.current_idx
    /\ is_playing' = s.is_playing
    /\ files' = s.files
    /\ loop_mode' = s.loop_mode
    /\ loaded' = s.loaded
    /\ drive_service' = s.drive_service
    /\ credentials_uploaded' = s.credentials_uploaded
    /\ token_pickle' = s.token_pickle
    /\ source_type' = s.source_type
    /\ auth_code' = s.auth_code
    /\ gdrive_url' = s.gdrive_url
    /\ show_images' = s.show_images
    /\ show_videos' = s.show_videos
    /\ selected_extensions' = s.selected_extensions
    /\ temp_files' = s.temp_files
    /\ token_expired' = s.token_expired
    /\ messages' = s.messages
    /\ view' = s.view
    /\ rerun' = s.rerun
    /\ folder_id' = s.folder_id
    /\ refresh_attempts' = s.refresh_attempts
    /\ refresh_failed' = s.refresh_failed
    /\ init_outcome' = s.init_outcome

Say(s, msg) == [s EXCEPT !.messages = @ \cup {msg}]

\* st.rerun(): the run stops here and another one is due
st_rerun(s) == [s EXCEPT !.rerun = TRUE]

-----------------------------------------------------------------------------
(* initialize_drive_service *)

\* The cached blob: "none" (no token_pickle key), "corrupt" (bytes pickle.loads
\* rejects), "refreshable" (credentials with a refresh token), "plain"
\* (credentials without one).  creds.expired is token_expired.
\* nd carries what the network answers in this call: refresh_ok, fetch_ok,
\* build_ok, and whether a newly issued token has a refresh token.

\* the except Exception handler: the temp file stays behind
init_error(t) ==
    [Say(t, "Error initializing Drive service") EXCEPT !.init_outcome = "error"]

\* build('drive', 'v3', credentials=creds), os.unlink, return service
build_service(t, nd) ==
    IF nd.build_ok
    THEN [t EXCEPT !.temp_files = @ - 1, !.drive_service = "service",
                   !.init_outcome = "service"]
    ELSE init_error(t)

\* the flow branch: authorization URL, the code input, fetch_token
interactive_auth(t, nd) ==
    LET u == Say(t, "Authentication Required")
    IN  IF u.auth_code
        THEN IF nd.fetch_ok
             THEN st_rerun([Say(u, "Authentication successful") EXCEPT
                              !.token_pickle = IF nd.refresh_token THEN "refreshable" ELSE "plain",
                              !.token_expired = FALSE,
                              !.refresh_attempts = 0,
                              !.refresh_failed = FALSE,
                              !.init_outcome = "rerun"])
             ELSE [Say(u, "Authentication failed") EXCEPT !.init_outcome = "auth_failed"]
        ELSE [u EXCEPT !.init_outcome = "waiting"]

initialize_drive_service(s, nd) ==
    LET t == [s EXCEPT !.temp_files = @ + 1]
        creds == s.token_pickle
    IN  IF creds = "corrupt" THEN init_error(t)
        ELSE IF creds # "none" /\ ~s.token_expired THEN build_service(t, nd)
        ELSE IF creds = "refreshable" /\ s.token_expired
        THEN LET r == [t EXCEPT !.refresh_attempts = @ + 1]
             IN  IF nd.refresh_ok THEN build_service(r, nd)
                 ELSE init_error([r EXCEPT !.refresh_failed = TRUE])
        ELSE interactive_auth(t, nd)

-----------------------------------------------------------------------------
(* The sidebar *)

\* One run handles one event ev = [type, arg]: the widget the user changed or
\* the button the user pressed ("none" for a run nothing triggered but a rerun).

\* f.suffix.lower() in IMAGE_EXT + VIDEO_EXT, and the dict built for a local file
\* (path is left out: it takes no part in any decision)
is_local_media(f) == InList(Lower(path_suffix(f.name)), IMAGE_EXT \o VIDEO_EXT)

local_file(f) ==
    [name |-> f.name, ext |-> Lower(path_suffix(f.name)),
     size |-> f.size, modified |-> f.modified, source |-> "local"]

\* files replaced, index reset, rerun: the tail both load handlers share
loaded_files(s, new_files) ==
    st_rerun([Say(s, "Loaded files") EXCEPT
                !.files = new_files, !.current_idx = 0, !.loaded = TRUE])

\* [f for f in p.iterdir() if ...] turned into dicts, in sorted(files) order
local_listing(found) ==
    Sorted("name", FALSE, [i \in 1..Cardinality(found) |-> local_file(AsList(found)[i])])

\* the "Load Files" button; dir is the folder found at folder_path
local_load_handler(s, dir) ==
    IF ~dir.exists THEN Say(s, "Folder not found")
    ELSE IF ~dir.is_dir THEN Say(s, "Path is not a folder")
    ELSE IF { f \in dir.entries : is_local_media(f) } # {}
    THEN loaded_files(s, local_listing({ f \in dir.entries : is_local_media(f) }))
    ELSE Say(s, "No media files found in folder")

\* lines 321-329: what the handler does with the list load_gdrive_files returned
gdrive_loaded(s, got) ==
    IF got.files # << >>
    THEN loaded_files(s, Sorted("name", FALSE, got.files))
    ELSE Say(s, "No media files found in the folder")

\* load_gdrive_files as the handler sees it: its st.error, then its list
gdrive_listing(s, got) ==
    gdrive_loaded(IF got.failed THEN Say(s, "Error loading files") ELSE s, got)

\* the "Load Files from Google Drive" button; pages is what the list endpoint
\* answers during this call
gdrive_load_handler(s, pages) ==
    IF extract_folder_id(s.gdrive_url) # None
    THEN gdrive_listing(s, load_gdrive_files(pages))
    ELSE Say(s, "Invalid Google Drive URL")

\* the file uploader: arg says whether the upload parses as JSON
upload_credentials(s, ev) ==
    IF ev.type = "upload"
    THEN IF ev.arg
         THEN [Say(s, "Credentials file uploaded") EXCEPT !.credentials_uploaded = TRUE]
         ELSE Say(s, "Invalid JSON file")
    ELSE s

\* lines 307-331: the folder URL input and the load button, once connected
drive_connected(s, ev) ==
    IF s.rerun \/ s.drive_service = "none" THEN s
    ELSE IF ev.type = "load_gdrive"
    THEN gdrive_load_handler(Say(s, "Connected to Google Drive"), ev.arg)
    ELSE Say(s, "Connected to Google Drive")

\* lines 298-331: with credentials uploaded, the service is initialized if it
\* is not there yet
drive_section(s, ev, nd) ==
    IF ~s.credentials_uploaded THEN s
    ELSE drive_connected(IF s.drive_service = "none"
                         THEN initialize_drive_service(s, nd) ELSE s, ev)

\* the Google Drive branch of the sidebar
sidebar_gdrive(s, ev, nd) == drive_section(upload_credentials(s, ev), ev, nd)

\* the Local Folder branch of the sidebar
sidebar_local(s, ev) ==
    IF ev.type = "load_local" THEN local_load_handler(s, ev.arg)
    ELSE IF ev.type = "refresh" THEN st_rerun(s)
    ELSE s

\* the authorization code input keeps its value only while it is drawn
undrawn_inputs(s) ==
    IF s.init_outcome \in {"waiting", "auth_failed", "rerun"} THEN s
    ELSE [s EXCEPT !.auth_code = FALSE]

\* the source radio and the branch it selects
sidebar_source(s, ev, nd) ==
    undrawn_inputs(IF s.source_type = "Google Drive (with Auth)"
                   THEN sidebar_gdrive(s, ev, nd)
                   ELSE sidebar_local(s, ev))

\* st.session_state.loop_mode = st.checkbox(...)
loop_checkbox(s, ev) ==
    IF ev.type = "toggle_loop" THEN [s EXCEPT !.loop_mode = ~@] ELSE s

\* the list the chosen option leaves; for Random Shuffle arg carries the order
\* random.shuffle produced
sort_files(fs, arg) ==
    CASE arg.option = "Name (A-Z)" -> Sorted("name_lower", FALSE, fs)
      [] arg.option = "Name (Z-A)" -> Sorted("name_lower", TRUE, fs)
      [] arg.option = "Date Modified (Newest)" -> Sorted("modified", TRUE, fs)
      [] arg.option = "Date Modified (Oldest)" -> Sorted("modified", FALSE, fs)
      [] arg.option = "Size (Largest)" -> Sorted("size", TRUE, fs)
      [] arg.option = "Size (Smallest)" -> Sorted("size", FALSE, fs)
      [] arg.option = "Random Shuffle" -> arg.shuffled

\* the "Apply Sort" button
apply_sort(s, ev) ==
    IF ev.type = "sort" /\ s.files # << >>
    THEN st_rerun([Say(s, "Files sorted") EXCEPT
                     !.files = sort_files(s.files, ev.arg), !.current_idx = 0])
    ELSE s

\* sorted(set(f['ext'] for f in files)), as a set
all_extensions(fs) == { fs[i].ext : i \in 1..Len(fs) }

\* the two type checkboxes
type_checkboxes(s, ev) ==
    IF ev.type = "show_images" THEN [s EXCEPT !.show_images = ~@]
    ELSE IF ev.type = "show_videos" THEN [s EXCEPT !.show_videos = ~@]
    ELSE s

\* the multiselect.  It has no key, so Streamlit keeps its value only while its
\* options stay the same; with other options it is a new widget showing its
\* default, all of them.
extension_multiselect(s, ev, options) ==
    IF s.files = << >> THEN s
    ELSE IF s.selected_extensions.options # options
    THEN [s EXCEPT !.selected_extensions = [options |-> options, chosen |-> options]]
    ELSE IF ev.type = "select_extensions"
    THEN [s EXCEPT !.selected_extensions = [options |-> options, chosen |-> ev.arg]]
    ELSE s

filter_widgets(s, ev) ==
    extension_multiselect(type_checkboxes(s, ev), ev, all_extensions(s.files))

-----------------------------------------------------------------------------
(* The main area *)

\* the loop of lines 544-549 (selected_extensions is always bound here: the
\* multiselect is drawn whenever files is non-empty)
filtered_files(s) ==
    LET keep(f) ==
            /\ \/ InList(f.ext, IMAGE_EXT) /\ s.show_images
               \/ InList(f.ext, VIDEO_EXT) /\ s.show_videos
            /\ f.ext \in s.selected_extensions.chosen
    IN  SelectSeq(s.files, keep)

\* variants of the index check: none at all, and one that also gives up the
\* last index
valid_index_unchecked(idx, n) == idx
valid_index_off_by_one(idx, n) == IF idx >= n - 1 THEN 0 ELSE idx

\* "Ensure index is valid"
valid_index(idx, n) == IF idx >= n THEN 0 ELSE idx

\* the index arithmetic of the Prev and Next buttons and of the auto-advance
\* a variant of the Prev arithmetic that stops at the first file
PrevIdx_no_wrap(idx, n) == IF idx = 0 THEN 0 ELSE idx - 1

PrevIdx(idx, n) == (idx - 1) % n
NextIdx(idx, n) == (idx + 1) % n

\* a variant that leaves playback as it is
navigate_keeps_playing(s, idx) == st_rerun([s EXCEPT !.current_idx = idx])

\* a navigation button: the index it sets, playback stopped, rerun
navigate(s, idx) == st_rerun([s EXCEPT !.current_idx = idx, !.is_playing = FALSE])

\* the six columns of buttons, for the event of this run; n = len(filtered_files)
navigation_controls(s, ev, n) ==
    CASE ev.type = "first" -> navigate(s, 0)
      [] ev.type = "prev" -> navigate(s, PrevIdx(s.current_idx, n))
      [] ev.type = "pause" -> st_rerun([s EXCEPT !.is_playing = FALSE])
      [] ev.type = "play" -> st_rerun([s EXCEPT !.is_playing = TRUE])
      [] ev.type = "next" -> navigate(s, NextIdx(s.current_idx, n))
      [] ev.type = "last" -> navigate(s, n - 1)
      [] ev.type = "random" -> navigate(s, ev.arg)
      [] OTHER -> s

\* lines 551-609 for a filtered view of n files: the warning when it is empty;
\* otherwise the index check, the read of the current file (view) and the buttons
show_files(s, ev, n) ==
    IF n = 0 THEN Say(s, "No files match your current filters")
    ELSE navigation_controls(
             [s EXCEPT !.current_idx = valid_index(s.current_idx, n),
                       !.view = [idx |-> valid_index(s.current_idx, n), len |-> n]],
             ev, n)

\* lines 482-659: the welcome page when nothing is loaded, else the filtered
\* view.  A run that gets past the buttons while playing is left in time.sleep.
main_area(s, ev) ==
    IF s.files = << >> THEN s ELSE show_files(s, ev, Len(filtered_files(s)))

\* the value the event gives a widget that is read where it is drawn
widget_values(s, ev) ==
    CASE ev.type = "source" -> [s EXCEPT !.source_type = ev.arg]
      [] ev.type = "url" -> [s EXCEPT !.gdrive_url = ev.arg]
      [] ev.type = "auth_code" -> [s EXCEPT !.auth_code = ev.arg]
      [] OTHER -> s

\* the run starts: nothing shown yet, the event's widget value in place
run_start(s, ev) ==
    [widget_values(s, ev) EXCEPT
       !.messages = {}, !.view = NoView, !.rerun = FALSE, !.init_outcome = "not_called"]

\* the sidebar below the source branch, unless the run has ended in a rerun
sidebar_rest(s, ev) == IF s.rerun THEN s ELSE apply_sort(loop_checkbox(s, ev), ev)

\* the filter widgets and the main area, unless the run has ended in a rerun
page_rest(s, ev) == IF s.rerun THEN s ELSE main_area(filter_widgets(s, ev), ev)

\* One script run, top to bottom, for the event ev; every st.rerun() ends it.
script_run(ev, nd) ==
    page_rest(sidebar_rest(sidebar_source(run_start(Cur, ev), ev, nd), ev), ev)

\* a variant that stops at every wrap, whatever loop_mode says
auto_advance_stops_at_wrap(s) ==
    IF (s.current_idx + 1) % s.view.len = 0
    THEN st_rerun([Say(s, "Slideshow completed") EXCEPT !.current_idx = 0, !.is_playing = FALSE])
    ELSE st_rerun([s EXCEPT !.current_idx = (s.current_idx + 1) % s.view.len])

\* the auto-advance block after time.sleep(duration), lines 664-672
auto_advance(s) ==
    LET idx == NextIdx(s.current_idx, s.view.len)
        t == [s EXCEPT !.current_idx = idx]
    IN  st_rerun(IF ~s.loop_mode /\ idx = 0
                 THEN [Say(t, "Slideshow completed") EXCEPT !.is_playing = FALSE]
                 ELSE t)

-----------------------------------------------------------------------------
(* Bounds and inputs *)

\* temp files left in the temp directory, creds.refresh calls on one blob
MaxTempFiles == 5
MaxRefresh == 2
\* pages of one listing, items on one page, fragments of one typed URL
MaxPages == 2
MaxPageItems == 2
MaxFrags == 4
\* Next and Prev presses followed in one behaviour
MaxPresses == 4

Entry(name, size, modified) == [name |-> name, size |-> size, modified |-> modified]

A_JPG == Entry(<< "a", ".", "j", "p", "g" >>, 3, 1)
B_PNG == Entry(<< "B", ".", "P", "N", "G" >>, 1, 3)
C_MP4 == Entry(<< "c", ".", "m", "p", "4" >>, 2, 2)
D_TXT == Entry(<< "d", ".", "t", "x", "t" >>, 1, 1)
E_BARE == Entry(<< "e" >>, 1, 1)
DOT_GIF == Entry(<< ".", "g", "i", "f" >>, 1, 1)

\* what a folder may hold, in the order a listing returns it
Catalogue == << A_JPG, B_PNG, C_MP4, D_TXT, E_BARE, DOT_GIF >>

\* the items one page can carry: up to MaxPageItems of the catalogue
PageContents ==
    { SelectSeq(Catalogue, LAMBDA e : e \in S) :
        S \in { T \in SUBSET { Catalogue[i] : i \in 1..Len(Catalogue) } :
                  Cardinality(T) <= MaxPageItems } }

\* one response of the list endpoint: an error, or a page with no token, or a
\* page with the token of a later page
PageResponses ==
    { PageError } \cup { Page(c, t) : c \in PageContents, t \in {0} \cup 2..MaxPages }

\* the endpoint's pages: page i carries the token of page i + 1 or none, and
\* the last page carries none
IsListing(pages) ==
    /\ \A i \in 1..Len(pages) : pages[i].next \in {0, i + 1}
    /\ pages[Len(pages)].next = 0

\* the Drive folders the session's load handler is tried on
DriveFolders ==
    { << Page(<< A_JPG, C_MP4 >>, 0) >>,
      << Page(<< C_MP4 >>, 2), Page(<< B_PNG, D_TXT >>, 0) >>,
      << Page(<< D_TXT, E_BARE >>, 0) >>,
      << Page(<< A_JPG >>, 2), PageError >>,
      << PageError >> }

\* the local folders: a missing path, a file, or a directory holding a text file
\* and some of the media entries
LocalEntries == { A_JPG, B_PNG, C_MP4 }
LocalDirs ==
    { [exists |-> FALSE, is_dir |-> FALSE, entries |-> {}],
      [exists |-> TRUE, is_dir |-> FALSE, entries |-> {}] }
    \cup { [exists |-> TRUE, is_dir |-> TRUE, entries |-> S \cup {D_TXT}] :
              S \in SUBSET LocalEntries }

\* the default of the folder URL input, its identifier shortened
DefaultUrl ==
    << "h", "t", "t", "p", "s", ":", "/", "/", "d", "r", "i", "v", "e" >>
    \o FOLDERS \o << "1", "L", "f" >>

\* typed URLs: up to MaxFrags of these fragments in a row
UrlFragments == << FOLDERS, ID_EQ, << "a", "b" >>, << "X", "_", "1" >>, << "?" >>, << "/" >> >>

RECURSIVE UrlsOf(_)
UrlsOf(n) ==
    IF n = 0 THEN { << >> }
    ELSE { u \o UrlFragments[k] : u \in UrlsOf(n - 1), k \in 1..Len(UrlFragments) }

Urls == UNION { UrlsOf(n) : n \in 0..MaxFrags }

\* what the network answers during one call of initialize_drive_service
Answers ==
    [refresh_ok : BOOLEAN, fetch_ok : BOOLEAN, build_ok : BOOLEAN, refresh_token : BOOLEAN]

NoAnswer == [refresh_ok |-> FALSE, fetch_ok |-> FALSE, build_ok |-> FALSE, refresh_token |-> FALSE]

SortOptions ==
    { "Name (A-Z)", "Name (Z-A)", "Date Modified (Newest)", "Date Modified (Oldest)",
      "Size (Largest)", "Size (Smallest)" }

Event(type, arg) == [type |-> type, arg |-> arg]

-----------------------------------------------------------------------------
(* Initial states *)

\* lines 20-37 and the widget defaults, with nothing cached and nothing listed
FreshSession ==
    /\ current_idx = 0
    /\ is_playing = FALSE
    /\ files = << >>
    /\ loop_mode = TRUE
    /\ loaded = FALSE
    /\ source_type = "Local Folder"
    /\ auth_code = FALSE
    /\ show_images = TRUE
    /\ show_videos = TRUE
    /\ selected_extensions = [options |-> {}, chosen |-> {}]
    /\ temp_files = 0
    /\ token_expired = FALSE
    /\ messages = {}
    /\ view = NoView
    /\ rerun = FALSE
    /\ folder_id = None
    /\ refresh_attempts = 0
    /\ refresh_failed = FALSE
    /\ init_outcome = "not_called"
    /\ listed = << >>
    /\ requests = 0
    /\ called = FALSE
    /\ trail = << >>

\* A new session.  The token_pickle key is absent, or holds a blob left by an
\* earlier deployment that pickle.loads no longer accepts.
InitAuth ==
    /\ FreshSession
    /\ drive_service = "none"
    /\ credentials_uploaded = FALSE
    /\ token_pickle \in {"none", "corrupt"}
    /\ gdrive_url = DefaultUrl
    /\ endpoint = << >>

\* The session once the Drive sign-in is done (SpecAuth covers the sign-in):
\* credentials uploaded, a token cached, the service built.
Init ==
    /\ FreshSession
    /\ drive_service = "service"
    /\ credentials_uploaded = TRUE
    /\ token_pickle = "refreshable"
    /\ gdrive_url = DefaultUrl
    /\ endpoint = << >>

-----------------------------------------------------------------------------
(* Actions: one script run per event *)

Lister == << endpoint, listed, requests, called >>

\* the run for event ev, the network answering nd
Run(ev, nd) ==
    \E out \in {script_run(ev, nd)} :
        /\ out.temp_files <= MaxTempFiles
        /\ out.refresh_attempts <= MaxRefresh
        /\ Becomes(out)
        /\ UNCHANGED Lister
        /\ UNCHANGED trail

\* the last run drew the main area's buttons and is over or asleep
MainDrawn == ~rerun /\ view # NoView

\* the last run drew the Drive sidebar down to the load button
DriveConnected ==
    /\ source_type = "Google Drive (with Auth)"
    /\ credentials_uploaded
    /\ drive_service # "none"

\* the answers the network can give in a run: they matter only to a run that
\* may call initialize_drive_service
NetworkAnswers == IF drive_service = "none" THEN Answers ELSE {NoAnswer}

\* the run an st.rerun() asked for
Rerun == rerun /\ \E nd \in NetworkAnswers : Run(Event("none", FALSE), nd)

\* a widget without a handler is changed (the duration slider)
AdjustDuration == ~rerun /\ \E nd \in NetworkAnswers : Run(Event("duration", FALSE), nd)

SwitchSource ==
    /\ ~rerun
    /\ \E src \in {"Local Folder", "Google Drive (with Auth)"}, nd \in NetworkAnswers :
          src # source_type /\ Run(Event("source", src), nd)

\* a client_secrets file is put into the uploader; ok: it parses as JSON
UploadCredentials ==
    /\ ~rerun
    /\ source_type = "Google Drive (with Auth)"
    /\ \E ok \in BOOLEAN, nd \in Answers : Run(Event("upload", ok), nd)

\* a code is pasted into the authorization input the last run showed
EnterAuthCode ==
    /\ ~rerun
    /\ init_outcome \in {"waiting", "auth_failed"}
    /\ \E nd \in Answers : Run(Event("auth_code", TRUE), nd)

\* the clock passes the expiry of the cached token
TokenExpires ==
    /\ token_pickle \in {"refreshable", "plain"}
    /\ ~token_expired
    /\ token_expired' = TRUE
    /\ UNCHANGED << current_idx, is_playing, files, loop_mode, loaded,
                    drive_service, credentials_uploaded, token_pickle,
                    source_type, auth_code, gdrive_url,
                    show_images, show_videos, selected_extensions,
                    temp_files, messages, view, rerun, folder_id,
                    refresh_attempts, refresh_failed, init_outcome, trail >>
    /\ UNCHANGED Lister

\* another URL is typed into the folder URL input
TypeUrl ==
    /\ ~rerun
    /\ DriveConnected
    /\ \E url \in {DefaultUrl, << "a", "b" >>} : url # gdrive_url /\ Run(Event("url", url), NoAnswer)

LoadGDrive ==
    /\ ~rerun
    /\ DriveConnected
    /\ \E pages \in DriveFolders : Run(Event("load_gdrive", pages), NoAnswer)

LoadLocal ==
    /\ ~rerun
    /\ source_type = "Local Folder"
    /\ \E dir \in LocalDirs : Run(Event("load_local", dir), NoAnswer)

Refresh ==
    /\ ~rerun
    /\ source_type = "Local Folder"
    /\ Run(Event("refresh", FALSE), NoAnswer)

ToggleLoop == ~rerun /\ Run(Event("toggle_loop", FALSE), NoAnswer)

ApplySort ==
    /\ ~rerun
    /\ \/ \E o \in SortOptions : Run(Event("sort", [option |-> o, shuffled |-> files]), NoAnswer)
       \/ \E p \in Shuffles(files) :
             Run(Event("sort", [option |-> "Random Shuffle", shuffled |-> p]), NoAnswer)

ShowImages == ~rerun /\ Run(Event("show_images", FALSE), NoAnswer)

ShowVideos == ~rerun /\ Run(Event("show_videos", FALSE), NoAnswer)

SelectExtensions ==
    /\ ~rerun
    /\ files # << >>
    /\ \E chosen \in SUBSET selected_extensions.options :
          chosen # selected_extensions.chosen /\ Run(Event("select_extensions", chosen), NoAnswer)

First == MainDrawn /\ Run(Event("first", FALSE), NoAnswer)

PrevFile == MainDrawn /\ Run(Event("prev", FALSE), NoAnswer)

Play == MainDrawn /\ ~is_playing /\ Run(Event("play", FALSE), NoAnswer)

Pause == MainDrawn /\ is_playing /\ Run(Event("pause", FALSE), NoAnswer)

NextFile == MainDrawn /\ Run(Event("next", FALSE), NoAnswer)

Last == MainDrawn /\ Run(Event("last", FALSE), NoAnswer)

\* random.randint(0, len(filtered_files) - 1)
Random == MainDrawn /\ \E r \in 0..(view.len - 1) : Run(Event("random", r), NoAnswer)

\* time.sleep(duration) returns in a run that was left playing
AutoAdvance ==
    /\ MainDrawn
    /\ is_playing
    /\ \E out \in {auto_advance(Cur)} : Becomes(out)
    /\ UNCHANGED Lister
    /\ UNCHANGED trail

-----------------------------------------------------------------------------
(* The pure functions, applied to drawn inputs *)

Session ==
    << current_idx, is_playing, files, loop_mode, loaded,
       drive_service, credentials_uploaded, token_pickle,
       source_type, auth_code, show_images, show_videos, selected_extensions,
       temp_files, token_expired, messages, view, rerun,
       refresh_attempts, refresh_failed, init_outcome >>

InitLister ==
    /\ FreshSession
    /\ drive_service = "none"
    /\ credentials_uploaded = FALSE
    /\ token_pickle = "none"
    /\ gdrive_url = DefaultUrl
    /\ \E n \in 1..MaxPages : endpoint \in [1..n -> PageResponses]
    /\ IsListing(endpoint)

ListFolder ==
    /\ ~called
    /\ called' = TRUE
    /\ listed' = load_gdrive_files(endpoint).files
    /\ requests' = load_gdrive_files(endpoint).requests
    /\ UNCHANGED << endpoint, gdrive_url, folder_id, trail >>
    /\ UNCHANGED Session

InitExtract ==
    /\ FreshSession
    /\ drive_service = "none"
    /\ credentials_uploaded = FALSE
    /\ token_pickle = "none"
    /\ gdrive_url \in Urls
    /\ endpoint = << >>

ExtractFolderId ==
    /\ ~called
    /\ called' = TRUE
    /\ folder_id' = extract_folder_id(gdrive_url)
    /\ UNCHANGED << endpoint, listed, requests, gdrive_url, trail >>
    /\ UNCHANGED Session

\* A session showing a loaded local collection at some index: the state a
\* load, the run after it, a Random press and the run after that leave.
InitCursor ==
    /\ \E S \in (SUBSET LocalEntries) \ {{}} : files = local_listing(S)
    /\ current_idx \in 0..(Len(files) - 1)
    /\ view = [idx |-> current_idx, len |-> Len(files)]
    /\ selected_extensions = [options |-> all_extensions(files), chosen |-> all_extensions(files)]
    /\ loaded = TRUE
    /\ is_playing = FALSE
    /\ loop_mode = TRUE
    /\ source_type = "Local Folder"
    /\ auth_code = FALSE
    /\ show_images = TRUE
    /\ show_videos = TRUE
    /\ temp_files = 0
    /\ token_expired = FALSE
    /\ messages = {}
    /\ rerun = FALSE
    /\ folder_id = None
    /\ refresh_attempts = 0
    /\ refresh_failed = FALSE
    /\ init_outcome = "not_called"
    /\ listed = << >>
    /\ requests = 0
    /\ called = FALSE
    /\ trail = << >>
    /\ drive_service = "service"
    /\ credentials_uploaded = TRUE
    /\ token_pickle = "refreshable"
    /\ gdrive_url = DefaultUrl
    /\ endpoint = << >>

\* the run of a Next or Prev press, noted on the trail
Press(button) ==
    /\ MainDrawn
    /\ Len(trail) < MaxPresses
    /\ \E out \in {script_run(Event(button, FALSE), NoAnswer)} :
          /\ Becomes(out)
          /\ trail' = Append(trail, [press |-> button, from |-> current_idx,
                                     to |-> out.current_idx])
    /\ UNCHANGED Lister

PressNext == Press("next")

PressPrev == Press("prev")

-----------------------------------------------------------------------------
(* Specifications *)

\* the slideshow over a loaded collection
Next ==
    \/ Rerun \/ AdjustDuration \/ SwitchSource \/ TypeUrl
    \/ LoadGDrive \/ LoadLocal \/ Refresh
    \/ ToggleLoop \/ ApplySort \/ ShowImages \/ ShowVideos \/ SelectExtensions
    \/ First \/ PrevFile \/ Play \/ Pause \/ NextFile \/ Last \/ Random
    \/ AutoAdvance

Spec == Init /\ [][Next]_vars

\* the Drive sign-in
NextAuth ==
    \/ Rerun \/ AdjustDuration \/ SwitchSource
    \/ UploadCredentials \/ EnterAuthCode \/ TokenExpires

SpecAuth == InitAuth /\ [][NextAuth]_vars

SpecLister == InitLister /\ [][ListFolder]_vars

SpecExtract == InitExtract /\ [][ExtractFolderId]_vars

\* Next and Prev presses on a loaded collection
NextCursor == PressNext \/ PressPrev \/ Rerun

SpecCursor == InitCursor /\ [][NextCursor]_vars

-----------------------------------------------------------------------------
(* Claims *)

\* C1: with loop_mode off, an auto-advance tick at the last index stops playback
\* and leaves current_idx at the last index, length - 1.
C1_TickAtEndStaysAtEnd ==
    [][(AutoAdvance /\ ~loop_mode /\ current_idx = view.len - 1)
         => (is_playing' = FALSE /\ current_idx' = view.len - 1)]_vars

\* C2: whenever a run reads the current file (the filtered collection is then
\* non-empty), the index it reads at satisfies 0 <= index < length, and an
\* index that was out of range for the collection read is 0 when it is used.
C2_IndexInRangeWhenRead ==
    [][view' # NoView
         => /\ 0 <= view'.idx /\ view'.idx < view'.len
            /\ (current_idx >= view'.len) => (view'.idx = 0)]_vars

\* a run reads the last file of a filtered view that is shorter than the collection
C2_Witness ==
    /\ view # NoView
    /\ view.len >= 2
    /\ view.len < Len(files)
    /\ view.idx = view.len - 1

\* C3: a load that succeeds ends in Ready: index 0 and not playing.
C3_LoadEndsReady ==
    "Loaded files" \in messages => (current_idx = 0 /\ ~is_playing)

\* the number of files the filter settings let through
VisibleCount ==
    Cardinality({ i \in 1..Len(files) :
        /\ \/ InList(files[i].ext, IMAGE_EXT) /\ show_images
           \/ InList(files[i].ext, VIDEO_EXT) /\ show_videos
        /\ files[i].ext \in selected_extensions.chosen })

\* a step in which a filter widget changes its value
FilterChange ==
    \/ show_images' # show_images
    \/ show_videos' # show_videos
    \/ selected_extensions'.chosen # selected_extensions.chosen

\* a step in which Apply Sort sorts the collection
SortApplied == "Files sorted" \in messages'

SameMembers(a, b) ==
    \A x \in { a[i] : i \in 1..Len(a) } \cup { b[i] : i \in 1..Len(b) } :
        Cardinality({ i \in 1..Len(a) : a[i] = x }) = Cardinality({ i \in 1..Len(b) : b[i] = x })

\* C4 as stated: a filter change or a sort resets current_idx to 0 and leaves
\* is_playing as it was.
C4_FilterOrSortResetsIndex ==
    [][(FilterChange \/ SortApplied) => (current_idx' = 0 /\ is_playing' = is_playing)]_vars

\* C4 amended: Apply Sort on a non-empty collection reorders it and sets
\* current_idx to 0; a filter change leaves the collection alone and sets
\* current_idx to 0 only when it is out of range for the new filtered view
\* (current_idx >= its length, the view not empty), else leaves it; neither
\* changes is_playing.
C4_SortResetsFilterClamps ==
    [][/\ SortApplied
            => /\ current_idx' = 0
               /\ is_playing' = is_playing
               /\ SameMembers(files', files)
       /\ FilterChange
            => /\ current_idx' = IF VisibleCount' > 0 /\ current_idx >= VisibleCount'
                                 THEN 0 ELSE current_idx
               /\ is_playing' = is_playing
               /\ files' = files
               /\ view' # NoView => view'.len = VisibleCount']_vars

\* a filtered view is shown while playing, at an index other than 0
C4_Witness ==
    /\ view # NoView
    /\ view.len < Len(files)
    /\ view.idx > 0
    /\ is_playing

\* C5: no call of initialize_drive_service returns with its temp file still there.
C5_TempFileDeleted == temp_files = 0

\* C6: once a refresh has failed, every later call asks for a fresh interactive
\* authorization and does not refresh with the cached token again.
C6_NoSecondRefresh ==
    [][(refresh_failed /\ init_outcome' # "not_called" /\ ~TokenExpires)
         => /\ "Authentication Required" \in messages'
            /\ refresh_attempts' = refresh_attempts]_vars

PriorityFolderId(url) ==
    IF re_search(FOLDERS, url) # None THEN re_search(FOLDERS, url)
    ELSE IF re_search(ID_EQ, url) # None THEN re_search(ID_EQ, url)
    ELSE IF url # << >> /\ \A i \in 1..Len(url) : IsIdChar(url[i]) THEN url
    ELSE None

\* C8: extract_folder_id returns the first match in the order /folders/, id=,
\* bare identifier, and nothing when none matches.
C8_PriorityOrder == called => folder_id = PriorityFolderId(gdrive_url)

\* the allowlist, and a name that ends in one of its extensions whatever the
\* case, with a character other than a dot somewhere before the extension
\* (os.path.splitext gives ".gif" and "e" no extension)
Allowlist == { (IMAGE_EXT \o VIDEO_EXT)[i] : i \in 1..Len(IMAGE_EXT \o VIDEO_EXT) }

IsMediaName(name) ==
    \E ext \in Allowlist :
        /\ Len(name) > Len(ext)
        /\ Lower(SubSeq(name, Len(name) - Len(ext) + 1, Len(name))) = ext
        /\ \E i \in 1..(Len(name) - Len(ext)) : name[i] # "."

\* the page at which a listing of these pages ends: the first without a token
StopPage(pages) ==
    CHOOSE k \in 1..Len(pages) : pages[k].next = 0 /\ \A j \in 1..(k - 1) : pages[j].next # 0

\* the names of the media items of pages 1..k, in arrival order
RECURSIVE MediaNames(_, _)
MediaNames(pages, k) ==
    IF k = 0 THEN << >>
    ELSE MediaNames(pages, k - 1)
         \o [i \in 1..Len(SelectSeq(pages[k].items, LAMBDA e : IsMediaName(e.name))) |->
               SelectSeq(pages[k].items, LAMBDA e : IsMediaName(e.name))[i].name]

\* C9: when no request errors, load_gdrive_files returns exactly the items with
\* an allowlisted lower-cased extension from the pages up to the first one
\* without a token, in arrival order, and requests no page after that one.
C9_ListsMediaInOrder ==
    (called /\ ~endpoint[StopPage(endpoint)].error)
      => /\ [i \in 1..Len(listed) |-> listed[i].name] = MediaNames(endpoint, StopPage(endpoint))
         /\ \A i \in 1..Len(listed) : listed[i].ext \in Allowlist
         /\ requests = StopPage(endpoint)

\* a listing of two pages, a third never requested, that keeps an upper-case
\* name and skips an item
C9_Witness ==
    /\ called
    /\ StopPage(endpoint) = 2
    /\ \E i \in 1..Len(listed) : listed[i].name # Lower(listed[i].name)
    /\ Len(listed) >= 2
    /\ Len(listed) < Len(endpoint[1].items) + Len(endpoint[2].items)
    /\ ~endpoint[2].error

\* C10: a listing with a failed page request leaves the session's collection
\* alone and shows up as an error, not as a listing that found no media files.
C10_FailureNotAnEmptyListing ==
    [][("Error loading files" \in messages')
         => /\ files' = files
            /\ "Loaded files" \notin messages'
            /\ "No media files found in the folder" \notin messages']_vars

\* C11: on a collection of N >= 1 files, N presses of Next in a row bring the
\* index back to where it was, and a Prev after a Next, or a Next after a
\* Prev, restores the index; each press starts from the index the one before
\* it left.
C11_NextCyclesPrevInverts ==
    /\ \A k \in 1..(Len(trail) - 1) : trail[k + 1].from = trail[k].to
    /\ \A k \in 1..Len(trail) :
         (/\ k + Len(files) - 1 <= Len(trail)
          /\ \A j \in k..(k + Len(files) - 1) : trail[j].press = "next")
           => trail[k + Len(files) - 1].to = trail[k].from
    /\ \A k \in 1..(Len(trail) - 1) :
         trail[k].press # trail[k + 1].press => trail[k + 1].to = trail[k].from

\* three files, three presses of Next: the index is back at its start, and the
\* run after the last press has drawn it
C11_Witness ==
    /\ Len(files) = 3
    /\ Len(trail) = 3
    /\ \A k \in 1..3 : trail[k].press = "next"
    /\ current_idx = trail[1].from
    /\ ~rerun

\* a load that finds the folder and lists it without an error, and finds no
\* media files in it
EmptyListingLoaded ==
    \/ "No media files found in folder" \in messages'
    \/ /\ "No media files found in the folder" \in messages'
       /\ "Error loading files" \notin messages'

\* C12: after a load that completes, the collection is exactly what was
\* listed; after a load that listed no media files it is empty.
C12_LoadReplacesCollection ==
    [][EmptyListingLoaded => files' = << >>]_vars

\* C13: with loop_mode on, an auto-advance tick sets the index to
\* (index + 1) mod length, at the last index to 0, and leaves is_playing true.
C13_LoopTickWraps ==
    [][(is_playing /\ loop_mode /\ AutoAdvance)
         => /\ current_idx' = (current_idx + 1) % view.len
            /\ (current_idx = view.len - 1) => (current_idx' = 0)
            /\ is_playing']_vars

\* three files, loop on, playing: the tick at index 2 has set the index to 0
C13_Witness ==
    /\ loop_mode
    /\ is_playing
    /\ rerun
    /\ view = [idx |-> 2, len |-> 3]
    /\ current_idx = 0

\* a step that may be the press of a navigation button: it ends in st.rerun()
\* and is neither a load nor a sort
NavigationPress ==
    /\ ~rerun
    /\ rerun'
    /\ "Loaded files" \notin messages'
    /\ "Files sorted" \notin messages'
    /\ First \/ PrevFile \/ NextFile \/ Last \/ Random

\* C14: First, Prev, Next, Last and Random leave is_playing false; while it is
\* false no auto-advance tick happens, and only Play makes it true again.
C14_NavigationStopsPlayback ==
    [][/\ NavigationPress => ~is_playing'
       /\ ~is_playing => ~AutoAdvance
       /\ (~is_playing /\ is_playing') => Play]_vars

\* a navigation button has moved the index away from the file shown, and
\* playback is off
C14_Witness ==
    /\ rerun
    /\ view # NoView
    /\ current_idx # view.idx
    /\ ~is_playing
    /\ "Slideshow completed" \notin messages

====
